---------------------------- MODULE Spec2Model ----------------------------
(* A model of mm_binary_io: the Endian byte-order functions (endian.rs),  *)
(* the FromBytes / ReadInteger / WriteInteger per-kind traits and the     *)
(* BinaryRead / BinaryWrite stream extensions.                            *)
(*                                                                        *)
(* A machine integer of width W bytes is the record                       *)
(*   [panic |-> FALSE, signed |-> s, bits |-> <<b1, ..., bW>>]            *)
(* where b1 is its least significant byte and bW its most significant    *)
(* one: its bit pattern, kept at its width (a u64 does not fit a TLC      *)
(* integer).  A panicking evaluation is the record Panic.                 *)
EXTENDS Integers, Sequences, FiniteSets, TLC

VARIABLES reader, call, ret, log

vars == <<reader, call, ret, log>>

--------------------------------------------------------------------------
(* Bounds of the model.                                                   *)

\* bytes a caller's buffer may hold beyond the width of the integer kind
MaxExtra == 1
\* elements of an integer array, bytes of a byte array
MaxCount == 2

--------------------------------------------------------------------------
(* Integer kinds and byte orders.                                         *)

Kinds == {"u8", "i8", "u16", "i16", "u32", "i32", "u64", "i64"}

Endians == {"BigEndian", "LittleEndian"}

\* std::mem::size_of::<TInt>()
Width(TInt) ==
    CASE TInt \in {"u8", "i8"} -> 1
      [] TInt \in {"u16", "i16"} -> 2
      [] TInt \in {"u32", "i32"} -> 4
      [] TInt \in {"u64", "i64"} -> 8

IsSigned(TInt) == TInt \in {"i8", "i16", "i32", "i64"}

\* the unsigned kind a signed kind delegates to
UnsignedOf(TInt) ==
    CASE TInt \in {"u8", "i8"} -> "u8"
      [] TInt \in {"u16", "i16"} -> "u16"
      [] TInt \in {"u32", "i32"} -> "u32"
      [] TInt \in {"u64", "i64"} -> "u64"

--------------------------------------------------------------------------
(* Machine arithmetic on bit patterns.                                    *)

\* F(x) and F(x, y) with the arguments evaluated once, as the program
\* evaluates the operands of an expression
Let1(F(_), x) == CHOOSE r \in { F(v) : v \in {x} } : TRUE

Let2(F(_, _), x, y) == CHOOSE r \in { F(v, u) : v \in {x}, u \in {y} } : TRUE

Panic == [panic |-> TRUE, signed |-> FALSE, bits |-> <<>>]

\* b \o <<>> is b, as the sequence of its bytes
Val(s, b) == [panic |-> FALSE, signed |-> s, bits |-> b \o <<>>]

RECURSIVE BitOr(_, _)
\* a | b on two bytes
BitOr(a, b) ==
    IF a = 0 THEN b
    ELSE IF b = 0 THEN a
    ELSE (IF a % 2 = 1 \/ b % 2 = 1 THEN 1 ELSE 0) + 2 * BitOr(a \div 2, b \div 2)

RECURSIVE BitAnd(_, _)
\* a & b on two bytes
BitAnd(a, b) ==
    IF a = 0 \/ b = 0 THEN 0
    ELSE (IF a % 2 = 1 /\ b % 2 = 1 THEN 1 ELSE 0) + 2 * BitAnd(a \div 2, b \div 2)

RECURSIVE LimbsOf(_, _)
\* the W-byte two's-complement pattern of the (small) integer n
LimbsOf(n, W) ==
    IF W = 0 THEN <<>> ELSE <<n % 256>> \o LimbsOf(n \div 256, W - 1)

\* an unsigned literal such as 0xFF_u16
Lit(n, W) == Val(FALSE, LimbsOf(n, W))

\* bytes[i]: a bounds-checked read of a slice, 0-based
\* Index without the bounds check, reading 0 past the end: C7 tells it
\* from Index
Index_unchecked(bytes, i) ==
    IF i < Len(bytes) THEN Val(FALSE, <<bytes[i + 1]>>) ELSE Val(FALSE, <<0>>)

Index(bytes, i) ==
    IF i < Len(bytes) THEN Val(FALSE, <<bytes[i + 1]>>) ELSE Panic

\* x as uW: zero-extension of a narrower unsigned value, truncation of a
\* wider one, reinterpretation of a signed value of the same width
CastU(x, W) ==
    Let1(LAMBDA v :
           IF v.panic THEN Panic
           ELSE Val(FALSE, [k \in 1..W |-> IF k <= Len(v.bits) THEN v.bits[k] ELSE 0]),
         x)

\* x as iW for an unsigned x of the same width W: the same bit pattern
CastI(x, W) ==
    Let1(LAMBDA v :
           IF v.panic THEN Panic
           ELSE Val(TRUE, [k \in 1..W |-> IF k <= Len(v.bits) THEN v.bits[k] ELSE 0]),
         x)

\* x << n, n a multiple of 8 (every shift of the source is)
Shl(x, n) ==
    Let1(LAMBDA v :
           IF v.panic THEN Panic
           ELSE Val(v.signed, [k \in 1..Len(v.bits) |->
                                 IF k > n \div 8 THEN v.bits[k - n \div 8] ELSE 0]),
         x)

\* x >> n on an unsigned x, n a multiple of 8
Shr(x, n) ==
    Let1(LAMBDA v :
           IF v.panic THEN Panic
           ELSE Val(v.signed, [k \in 1..Len(v.bits) |->
                                 IF k + n \div 8 <= Len(v.bits)
                                 THEN v.bits[k + n \div 8] ELSE 0]),
         x)

\* x | y on two values of the same width
Or(x, y) ==
    Let2(LAMBDA v, u :
           IF v.panic \/ u.panic THEN Panic
           ELSE Val(v.signed, [k \in 1..Len(v.bits) |-> BitOr(v.bits[k], u.bits[k])]),
         x, y)

\* x & y on two values of the same width
And(x, y) ==
    Let2(LAMBDA v, u :
           IF v.panic \/ u.panic THEN Panic
           ELSE Val(v.signed, [k \in 1..Len(v.bits) |-> BitAnd(v.bits[k], u.bits[k])]),
         x, y)

\* (x as u8) as a byte of a slice
AsByte(x) == CastU(x, 1).bits[1]

\* destination[i] = b: a bounds-checked store, 0-based; a store after a
\* panic never happens
Store(d, i, b) ==
    Let1(LAMBDA e :
           IF e.panic THEN e
           ELSE IF i < Len(e.dest) THEN [e EXCEPT !.dest[i + 1] = b]
           ELSE [e EXCEPT !.panic = TRUE],
         d)

\* a destination slice on entry to a *_to_bytes function
Dest(destination) == [dest |-> destination, panic |-> FALSE]

--------------------------------------------------------------------------
(* impl Endian for BigEndian (endian.rs).                               *)

BigEndian_u8_from_bytes(bytes) ==
    Index(bytes, 0)

BigEndian_i8_from_bytes(bytes) ==
    CastI(BigEndian_u8_from_bytes(bytes), 1)

BigEndian_u16_from_bytes(bytes) ==
    Or(Shl(CastU(Index(bytes, 0), 2), 8),
           Shl(CastU(Index(bytes, 1), 2), 0))

BigEndian_i16_from_bytes(bytes) ==
    CastI(BigEndian_u16_from_bytes(bytes), 2)

\* BigEndian::u32_from_bytes with the shifts of bytes[2] and bytes[3]
\* exchanged: C3 tells it from BigEndian_u32_from_bytes
BigEndian_u32_from_bytes_swapped(bytes) ==
    Or(Or(Or(Shl(CastU(Index(bytes, 0), 4), 24),
           Shl(CastU(Index(bytes, 1), 4), 16)),
           Shl(CastU(Index(bytes, 2), 4), 0)),
           Shl(CastU(Index(bytes, 3), 4), 8))

BigEndian_u32_from_bytes(bytes) ==
    Or(Or(Or(Shl(CastU(Index(bytes, 0), 4), 24),
           Shl(CastU(Index(bytes, 1), 4), 16)),
           Shl(CastU(Index(bytes, 2), 4), 8)),
           Shl(CastU(Index(bytes, 3), 4), 0))

BigEndian_i32_from_bytes(bytes) ==
    CastI(BigEndian_u32_from_bytes(bytes), 4)

BigEndian_u64_from_bytes(bytes) ==
    Or(Or(Or(Or(Or(Or(Or(Shl(CastU(Index(bytes, 0), 8), 56),
           Shl(CastU(Index(bytes, 1), 8), 48)),
           Shl(CastU(Index(bytes, 2), 8), 40)),
           Shl(CastU(Index(bytes, 3), 8), 32)),
           Shl(CastU(Index(bytes, 4), 8), 24)),
           Shl(CastU(Index(bytes, 5), 8), 16)),
           Shl(CastU(Index(bytes, 6), 8), 8)),
           Shl(CastU(Index(bytes, 7), 8), 0))

BigEndian_i64_from_bytes(bytes) ==
    CastI(BigEndian_u64_from_bytes(bytes), 8)

BigEndian_u8_to_bytes(value, destination) ==
    Store(Dest(destination), 0, AsByte(value))

BigEndian_i8_to_bytes(value, destination) ==
    Store(Dest(destination), 0, AsByte(CastU(value, 1)))

\* BigEndian::u16_to_bytes storing the low byte first: C4 tells it from
\* BigEndian_u16_to_bytes
BigEndian_u16_to_bytes_low_first(value, destination) ==
    LET d0 == Dest(destination)
        d1 == Store(d0, 0, AsByte(And(Shr(value, 0), Lit(255, 2))))
        d2 == Store(d1, 1, AsByte(And(Shr(value, 8), Lit(255, 2))))
    IN  d2

BigEndian_u16_to_bytes(value, destination) ==
    LET d0 == Dest(destination)
        d1 == Store(d0, 0, AsByte(And(Shr(value, 8), Lit(255, 2))))
        d2 == Store(d1, 1, AsByte(And(Shr(value, 0), Lit(255, 2))))
    IN  d2

BigEndian_i16_to_bytes(value, destination) ==
    LET v == CastU(value, 2)
        d0 == Dest(destination)
        d1 == Store(d0, 0, AsByte(And(Shr(v, 8), Lit(255, 2))))
        d2 == Store(d1, 1, AsByte(And(Shr(v, 0), Lit(255, 2))))
    IN  d2

BigEndian_u32_to_bytes(value, destination) ==
    LET d0 == Dest(destination)
        d1 == Store(d0, 0, AsByte(And(Shr(value, 24), Lit(255, 4))))
        d2 == Store(d1, 1, AsByte(And(Shr(value, 16), Lit(255, 4))))
        d3 == Store(d2, 2, AsByte(And(Shr(value, 8), Lit(255, 4))))
        d4 == Store(d3, 3, AsByte(And(Shr(value, 0), Lit(255, 4))))
    IN  d4

BigEndian_i32_to_bytes(value, destination) ==
    LET v == CastU(value, 4)
        d0 == Dest(destination)
        d1 == Store(d0, 0, AsByte(And(Shr(v, 24), Lit(255, 4))))
        d2 == Store(d1, 1, AsByte(And(Shr(v, 16), Lit(255, 4))))
        d3 == Store(d2, 2, AsByte(And(Shr(v, 8), Lit(255, 4))))
        d4 == Store(d3, 3, AsByte(And(Shr(v, 0), Lit(255, 4))))
    IN  d4

BigEndian_u64_to_bytes(value, destination) ==
    LET d0 == Dest(destination)
        d1 == Store(d0, 0, AsByte(And(Shr(value, 56), Lit(255, 8))))
        d2 == Store(d1, 1, AsByte(And(Shr(value, 48), Lit(255, 8))))
        d3 == Store(d2, 2, AsByte(And(Shr(value, 40), Lit(255, 8))))
        d4 == Store(d3, 3, AsByte(And(Shr(value, 32), Lit(255, 8))))
        d5 == Store(d4, 4, AsByte(And(Shr(value, 24), Lit(255, 8))))
        d6 == Store(d5, 5, AsByte(And(Shr(value, 16), Lit(255, 8))))
        d7 == Store(d6, 6, AsByte(And(Shr(value, 8), Lit(255, 8))))
        d8 == Store(d7, 7, AsByte(And(Shr(value, 0), Lit(255, 8))))
    IN  d8

BigEndian_i64_to_bytes(value, destination) ==
    LET v == CastU(value, 8)
        d0 == Dest(destination)
        d1 == Store(d0, 0, AsByte(And(Shr(v, 56), Lit(255, 8))))
        d2 == Store(d1, 1, AsByte(And(Shr(v, 48), Lit(255, 8))))
        d3 == Store(d2, 2, AsByte(And(Shr(v, 40), Lit(255, 8))))
        d4 == Store(d3, 3, AsByte(And(Shr(v, 32), Lit(255, 8))))
        d5 == Store(d4, 4, AsByte(And(Shr(v, 24), Lit(255, 8))))
        d6 == Store(d5, 5, AsByte(And(Shr(v, 16), Lit(255, 8))))
        d7 == Store(d6, 6, AsByte(And(Shr(v, 8), Lit(255, 8))))
        d8 == Store(d7, 7, AsByte(And(Shr(v, 0), Lit(255, 8))))
    IN  d8

--------------------------------------------------------------------------
(* impl Endian for LittleEndian (endian.rs).                            *)

LittleEndian_u8_from_bytes(bytes) ==
    Index(bytes, 0)

LittleEndian_i8_from_bytes(bytes) ==
    CastI(BigEndian_u8_from_bytes(bytes), 1)

LittleEndian_u16_from_bytes(bytes) ==
    Or(Shl(CastU(Index(bytes, 1), 2), 8),
           Shl(CastU(Index(bytes, 0), 2), 0))

LittleEndian_i16_from_bytes(bytes) ==
    CastI(BigEndian_u16_from_bytes(bytes), 2)

LittleEndian_u32_from_bytes(bytes) ==
    Or(Or(Or(Shl(CastU(Index(bytes, 3), 4), 24),
           Shl(CastU(Index(bytes, 2), 4), 16)),
           Shl(CastU(Index(bytes, 1), 4), 8)),
           Shl(CastU(Index(bytes, 0), 4), 0))

LittleEndian_i32_from_bytes(bytes) ==
    CastI(BigEndian_u32_from_bytes(bytes), 4)

LittleEndian_u64_from_bytes(bytes) ==
    Or(Or(Or(Or(Or(Or(Or(Shl(CastU(Index(bytes, 7), 8), 56),
           Shl(CastU(Index(bytes, 6), 8), 48)),
           Shl(CastU(Index(bytes, 5), 8), 40)),
           Shl(CastU(Index(bytes, 4), 8), 32)),
           Shl(CastU(Index(bytes, 3), 8), 24)),
           Shl(CastU(Index(bytes, 2), 8), 16)),
           Shl(CastU(Index(bytes, 1), 8), 8)),
           Shl(CastU(Index(bytes, 0), 8), 0))

LittleEndian_i64_from_bytes(bytes) ==
    CastI(BigEndian_u64_from_bytes(bytes), 8)

LittleEndian_u8_to_bytes(value, destination) ==
    Store(Dest(destination), 0, AsByte(value))

LittleEndian_i8_to_bytes(value, destination) ==
    LittleEndian_u8_to_bytes(CastU(value, 1), destination)

\* LittleEndian::u16_to_bytes storing one index too far: C6 tells it from
\* LittleEndian_u16_to_bytes
LittleEndian_u16_to_bytes_off_by_one(value, destination) ==
    LET d0 == Dest(destination)
        d1 == Store(d0, 2, AsByte(And(Shr(value, 8), Lit(255, 2))))
        d2 == Store(d1, 1, AsByte(And(Shr(value, 0), Lit(255, 2))))
    IN  d2

LittleEndian_u16_to_bytes(value, destination) ==
    LET d0 == Dest(destination)
        d1 == Store(d0, 1, AsByte(And(Shr(value, 8), Lit(255, 2))))
        d2 == Store(d1, 0, AsByte(And(Shr(value, 0), Lit(255, 2))))
    IN  d2

\* LittleEndian::i16_to_bytes handing over to the big-endian u16 encode,
\* as the little-endian signed decodes do: C5 tells it from
\* LittleEndian_i16_to_bytes
LittleEndian_i16_to_bytes_big(value, destination) ==
    BigEndian_u16_to_bytes(CastU(value, 2), destination)

LittleEndian_i16_to_bytes(value, destination) ==
    LET v == CastU(value, 2)
        d0 == Dest(destination)
        d1 == Store(d0, 1, AsByte(And(Shr(v, 8), Lit(255, 2))))
        d2 == Store(d1, 0, AsByte(And(Shr(v, 0), Lit(255, 2))))
    IN  d2

LittleEndian_u32_to_bytes(value, destination) ==
    LET d0 == Dest(destination)
        d1 == Store(d0, 3, AsByte(And(Shr(value, 24), Lit(255, 4))))
        d2 == Store(d1, 2, AsByte(And(Shr(value, 16), Lit(255, 4))))
        d3 == Store(d2, 1, AsByte(And(Shr(value, 8), Lit(255, 4))))
        d4 == Store(d3, 0, AsByte(And(Shr(value, 0), Lit(255, 4))))
    IN  d4

LittleEndian_i32_to_bytes(value, destination) ==
    LET v == CastU(value, 4)
        d0 == Dest(destination)
        d1 == Store(d0, 3, AsByte(And(Shr(v, 24), Lit(255, 4))))
        d2 == Store(d1, 2, AsByte(And(Shr(v, 16), Lit(255, 4))))
        d3 == Store(d2, 1, AsByte(And(Shr(v, 8), Lit(255, 4))))
        d4 == Store(d3, 0, AsByte(And(Shr(v, 0), Lit(255, 4))))
    IN  d4

LittleEndian_u64_to_bytes(value, destination) ==
    LET d0 == Dest(destination)
        d1 == Store(d0, 7, AsByte(And(Shr(value, 56), Lit(255, 8))))
        d2 == Store(d1, 6, AsByte(And(Shr(value, 48), Lit(255, 8))))
        d3 == Store(d2, 5, AsByte(And(Shr(value, 40), Lit(255, 8))))
        d4 == Store(d3, 4, AsByte(And(Shr(value, 32), Lit(255, 8))))
        d5 == Store(d4, 3, AsByte(And(Shr(value, 24), Lit(255, 8))))
        d6 == Store(d5, 2, AsByte(And(Shr(value, 16), Lit(255, 8))))
        d7 == Store(d6, 1, AsByte(And(Shr(value, 8), Lit(255, 8))))
        d8 == Store(d7, 0, AsByte(And(Shr(value, 0), Lit(255, 8))))
    IN  d8

LittleEndian_i64_to_bytes(value, destination) ==
    LET v == CastU(value, 8)
        d0 == Dest(destination)
        d1 == Store(d0, 7, AsByte(And(Shr(v, 56), Lit(255, 8))))
        d2 == Store(d1, 6, AsByte(And(Shr(v, 48), Lit(255, 8))))
        d3 == Store(d2, 5, AsByte(And(Shr(v, 40), Lit(255, 8))))
        d4 == Store(d3, 4, AsByte(And(Shr(v, 32), Lit(255, 8))))
        d5 == Store(d4, 3, AsByte(And(Shr(v, 24), Lit(255, 8))))
        d6 == Store(d5, 2, AsByte(And(Shr(v, 16), Lit(255, 8))))
        d7 == Store(d6, 1, AsByte(And(Shr(v, 8), Lit(255, 8))))
        d8 == Store(d7, 0, AsByte(And(Shr(v, 0), Lit(255, 8))))
    IN  d8


--------------------------------------------------------------------------
(* The Endian trait: TEndian::K_from_bytes / K_to_bytes, dispatched on    *)
(* the type parameter (endian.rs 81-129).                                 *)

\* TEndian::K_from_bytes and TEndian::K_to_bytes for a type parameter
\* TEndian: Endian, one kind each
Endian_u8_from_bytes(TEndian, bytes) ==
    IF TEndian = "BigEndian" THEN BigEndian_u8_from_bytes(bytes)
    ELSE LittleEndian_u8_from_bytes(bytes)

Endian_i8_from_bytes(TEndian, bytes) ==
    IF TEndian = "BigEndian" THEN BigEndian_i8_from_bytes(bytes)
    ELSE LittleEndian_i8_from_bytes(bytes)

Endian_u16_from_bytes(TEndian, bytes) ==
    IF TEndian = "BigEndian" THEN BigEndian_u16_from_bytes(bytes)
    ELSE LittleEndian_u16_from_bytes(bytes)

Endian_i16_from_bytes(TEndian, bytes) ==
    IF TEndian = "BigEndian" THEN BigEndian_i16_from_bytes(bytes)
    ELSE LittleEndian_i16_from_bytes(bytes)

Endian_u32_from_bytes(TEndian, bytes) ==
    IF TEndian = "BigEndian" THEN BigEndian_u32_from_bytes(bytes)
    ELSE LittleEndian_u32_from_bytes(bytes)

Endian_i32_from_bytes(TEndian, bytes) ==
    IF TEndian = "BigEndian" THEN BigEndian_i32_from_bytes(bytes)
    ELSE LittleEndian_i32_from_bytes(bytes)

Endian_u64_from_bytes(TEndian, bytes) ==
    IF TEndian = "BigEndian" THEN BigEndian_u64_from_bytes(bytes)
    ELSE LittleEndian_u64_from_bytes(bytes)

Endian_i64_from_bytes(TEndian, bytes) ==
    IF TEndian = "BigEndian" THEN BigEndian_i64_from_bytes(bytes)
    ELSE LittleEndian_i64_from_bytes(bytes)

Endian_u8_to_bytes(TEndian, value, destination) ==
    IF TEndian = "BigEndian" THEN BigEndian_u8_to_bytes(value, destination)
    ELSE LittleEndian_u8_to_bytes(value, destination)

Endian_i8_to_bytes(TEndian, value, destination) ==
    IF TEndian = "BigEndian" THEN BigEndian_i8_to_bytes(value, destination)
    ELSE LittleEndian_i8_to_bytes(value, destination)

Endian_u16_to_bytes(TEndian, value, destination) ==
    IF TEndian = "BigEndian" THEN BigEndian_u16_to_bytes(value, destination)
    ELSE LittleEndian_u16_to_bytes(value, destination)

Endian_i16_to_bytes(TEndian, value, destination) ==
    IF TEndian = "BigEndian" THEN BigEndian_i16_to_bytes(value, destination)
    ELSE LittleEndian_i16_to_bytes(value, destination)

Endian_u32_to_bytes(TEndian, value, destination) ==
    IF TEndian = "BigEndian" THEN BigEndian_u32_to_bytes(value, destination)
    ELSE LittleEndian_u32_to_bytes(value, destination)

Endian_i32_to_bytes(TEndian, value, destination) ==
    IF TEndian = "BigEndian" THEN BigEndian_i32_to_bytes(value, destination)
    ELSE LittleEndian_i32_to_bytes(value, destination)

Endian_u64_to_bytes(TEndian, value, destination) ==
    IF TEndian = "BigEndian" THEN BigEndian_u64_to_bytes(value, destination)
    ELSE LittleEndian_u64_to_bytes(value, destination)

Endian_i64_to_bytes(TEndian, value, destination) ==
    IF TEndian = "BigEndian" THEN BigEndian_i64_to_bytes(value, destination)
    ELSE LittleEndian_i64_to_bytes(value, destination)

\* TEndian::K_from_bytes for the kind K = TInt
Endian_from_bytes(TEndian, TInt, bytes) ==
    CASE TInt = "u8"   -> Endian_u8_from_bytes(TEndian, bytes)
      [] TInt = "i8"   -> Endian_i8_from_bytes(TEndian, bytes)
      [] TInt = "u16"  -> Endian_u16_from_bytes(TEndian, bytes)
      [] TInt = "i16"  -> Endian_i16_from_bytes(TEndian, bytes)
      [] TInt = "u32"  -> Endian_u32_from_bytes(TEndian, bytes)
      [] TInt = "i32"  -> Endian_i32_from_bytes(TEndian, bytes)
      [] TInt = "u64"  -> Endian_u64_from_bytes(TEndian, bytes)
      [] TInt = "i64"  -> Endian_i64_from_bytes(TEndian, bytes)

\* TEndian::K_to_bytes for the kind K = TInt
Endian_to_bytes(TEndian, TInt, value, destination) ==
    CASE TInt = "u8"   -> Endian_u8_to_bytes(TEndian, value, destination)
      [] TInt = "i8"   -> Endian_i8_to_bytes(TEndian, value, destination)
      [] TInt = "u16"  -> Endian_u16_to_bytes(TEndian, value, destination)
      [] TInt = "i16"  -> Endian_i16_to_bytes(TEndian, value, destination)
      [] TInt = "u32"  -> Endian_u32_to_bytes(TEndian, value, destination)
      [] TInt = "i32"  -> Endian_i32_to_bytes(TEndian, value, destination)
      [] TInt = "u64"  -> Endian_u64_to_bytes(TEndian, value, destination)
      [] TInt = "i64"  -> Endian_i64_to_bytes(TEndian, value, destination)

\* impl FromBytes for u8 .. i64 (from_bytes.rs): TEndian::K_from_bytes(bytes)
from_bytes(TInt, TEndian, bytes) ==
    Endian_from_bytes(TEndian, TInt, bytes)

--------------------------------------------------------------------------
(* The readable stream (std io::Read, here an in-memory cursor as in the  *)
(* doc tests): the bytes of the stream and the read position.  adv is the *)
(* number of bytes a failing read_exact consumes before it fails, which   *)
(* io::Read leaves unspecified.                                           *)

Min(a, b) == IF a <= b THEN a ELSE b

Remaining(r) == Len(r.data) - r.pos

\* reader.read_exact(&mut buf) with buf.len() = n
\* read_exact taking a short read for a full one, the bytes not read
\* left 0: C9 tells it from read_exact
read_exact_short(r, n, adv) ==
    Let1(LAMBDA s :
           [ok |-> TRUE, reader |-> [s EXCEPT !.pos = @ + Min(n, Remaining(s))],
            buf |-> SubSeq(s.data, s.pos + 1, s.pos + Min(n, Remaining(s)))
                      \o [k \in 1..(n - Min(n, Remaining(s))) |-> 0]],
         r)

read_exact(r, n, adv) ==
    Let1(LAMBDA s :
           IF Remaining(s) >= n
           THEN [ok |-> TRUE, reader |-> [s EXCEPT !.pos = @ + n],
                 buf |-> SubSeq(s.data, s.pos + 1, s.pos + n)]
           ELSE [ok |-> FALSE,
                 reader |-> [s EXCEPT !.pos = @ + Min(adv, Remaining(s))]],
         r)

(* impl ReadInteger for u8 .. i64 (read_integer.rs).                      *)

u8_read_integer(TEndian, r, adv) ==
    Let1(LAMBDA rd :
           IF rd.ok
           THEN [ok |-> TRUE, reader |-> rd.reader,
                 value |-> Endian_u8_from_bytes(TEndian, rd.buf)]
           ELSE [ok |-> FALSE, reader |-> rd.reader],
         read_exact(r, 1, adv))

i8_read_integer(TEndian, r, adv) ==
    Let1(LAMBDA x :
           IF x.ok
           THEN [ok |-> TRUE, reader |-> x.reader, value |-> CastI(x.value, 1)]
           ELSE x,
         u8_read_integer(TEndian, r, adv))

u16_read_integer(TEndian, r, adv) ==
    Let1(LAMBDA rd :
           IF rd.ok
           THEN [ok |-> TRUE, reader |-> rd.reader,
                 value |-> Endian_u16_from_bytes(TEndian, rd.buf)]
           ELSE [ok |-> FALSE, reader |-> rd.reader],
         read_exact(r, 2, adv))

\* i16::read_integer decoding the two bytes with TEndian::i16_from_bytes
\* instead of reading a u16: C8 tells it from i16_read_integer
i16_read_integer_from_bytes(TEndian, r, adv) ==
    Let1(LAMBDA rd :
           IF rd.ok
           THEN [ok |-> TRUE, reader |-> rd.reader,
                 value |-> Endian_i16_from_bytes(TEndian, rd.buf)]
           ELSE [ok |-> FALSE, reader |-> rd.reader],
         read_exact(r, 2, adv))

i16_read_integer(TEndian, r, adv) ==
    Let1(LAMBDA x :
           IF x.ok
           THEN [ok |-> TRUE, reader |-> x.reader, value |-> CastI(x.value, 2)]
           ELSE x,
         u16_read_integer(TEndian, r, adv))

u32_read_integer(TEndian, r, adv) ==
    Let1(LAMBDA rd :
           IF rd.ok
           THEN [ok |-> TRUE, reader |-> rd.reader,
                 value |-> Endian_u32_from_bytes(TEndian, rd.buf)]
           ELSE [ok |-> FALSE, reader |-> rd.reader],
         read_exact(r, 4, adv))

i32_read_integer(TEndian, r, adv) ==
    Let1(LAMBDA x :
           IF x.ok
           THEN [ok |-> TRUE, reader |-> x.reader, value |-> CastI(x.value, 4)]
           ELSE x,
         u32_read_integer(TEndian, r, adv))

u64_read_integer(TEndian, r, adv) ==
    Let1(LAMBDA rd :
           IF rd.ok
           THEN [ok |-> TRUE, reader |-> rd.reader,
                 value |-> Endian_u64_from_bytes(TEndian, rd.buf)]
           ELSE [ok |-> FALSE, reader |-> rd.reader],
         read_exact(r, 8, adv))

i64_read_integer(TEndian, r, adv) ==
    Let1(LAMBDA x :
           IF x.ok
           THEN [ok |-> TRUE, reader |-> x.reader, value |-> CastI(x.value, 8)]
           ELSE x,
         u64_read_integer(TEndian, r, adv))

\* TInt::read_integer::<TEndian>(reader)
read_integer(TInt, TEndian, r, adv) ==
    CASE TInt = "u8"  -> u8_read_integer(TEndian, r, adv)
      [] TInt = "i8"  -> i8_read_integer(TEndian, r, adv)
      [] TInt = "u16" -> u16_read_integer(TEndian, r, adv)
      [] TInt = "i16" -> i16_read_integer(TEndian, r, adv)
      [] TInt = "u32" -> u32_read_integer(TEndian, r, adv)
      [] TInt = "i32" -> i32_read_integer(TEndian, r, adv)
      [] TInt = "u64" -> u64_read_integer(TEndian, r, adv)
      [] TInt = "i64" -> i64_read_integer(TEndian, r, adv)

\* read_byte_array with a buffer of capacity byte_count and length 0
\* (Vec::with_capacity for vec![0_u8; byte_count]), so that nothing is
\* read: C12 tells it from read_byte_array
read_byte_array_empty_buf(r, byte_count, adv) ==
    Let1(LAMBDA rd :
           IF rd.ok
           THEN [ok |-> TRUE, reader |-> rd.reader, value |-> rd.buf]
           ELSE [ok |-> FALSE, reader |-> rd.reader],
         read_exact(r, 0, adv))

\* BinaryRead::read_byte_array
read_byte_array(r, byte_count, adv) ==
    Let1(LAMBDA rd :
           IF rd.ok
           THEN [ok |-> TRUE, reader |-> rd.reader, value |-> rd.buf]
           ELSE [ok |-> FALSE, reader |-> rd.reader],
         read_exact(r, byte_count, adv))

RECURSIVE read_integer_array_loop_skipping(_, _, _, _, _, _, _)
\* the loop of read_integer_array going on after a failed read (if let
\* Ok(v) = .. { result.push(v) } for the ?), returning what it got: C13
\* tells it from read_integer_array_loop
read_integer_array_loop_skipping(TInt, TEndian, r, i, element_count, result, adv) ==
    IF i >= element_count
    THEN [ok |-> TRUE, reader |-> r, value |-> result]
    ELSE Let1(LAMBDA x :
                read_integer_array_loop_skipping(
                    TInt, TEndian, x.reader, i + 1, element_count,
                    IF x.ok THEN Append(result, x.value) ELSE result, adv),
              read_integer(TInt, TEndian, r, adv))

RECURSIVE read_integer_array_loop(_, _, _, _, _, _, _)
\* the loop of read_integer_array from iteration i on, result so far
read_integer_array_loop(TInt, TEndian, r, i, element_count, result, adv) ==
    IF i >= element_count
    THEN [ok |-> TRUE, reader |-> r, value |-> result]
    ELSE Let1(LAMBDA x :
                IF x.ok
                THEN read_integer_array_loop(TInt, TEndian, x.reader, i + 1,
                                             element_count, Append(result, x.value), adv)
                ELSE [ok |-> FALSE, reader |-> x.reader],
              read_integer(TInt, TEndian, r, adv))

\* BinaryRead::read_integer_array
read_integer_array(TInt, TEndian, r, element_count, adv) ==
    read_integer_array_loop(TInt, TEndian, r, 0, element_count, <<>>, adv)

--------------------------------------------------------------------------
(* The writable stream (std io::Write): the bytes the stream has received, *)
(* in order.  A growing sink (a cursor over a Vec, as in the doc tests)    *)
(* never fails; a sink of capacity cap fails a write_all that does not     *)
(* fit, after taking `partial` bytes of it (at most the room left).        *)

Room(w) == w.cap - Len(w.received)

\* writer.write_all(buf)
write_all(w, buf, partial) ==
    Let2(LAMBDA s, b :
           IF s.grows \/ Len(b) <= Room(s)
           THEN [ok |-> TRUE, writer |-> [s EXCEPT !.received = @ \o b]]
           ELSE [ok |-> FALSE,
                 writer |-> [s EXCEPT !.received =
                                        @ \o SubSeq(b, 1, Min(partial, Room(s)))]],
         w, buf)

\* let buf: &mut [u8] = &mut [0; n]
ZeroBuf(n) == [k \in 1..n |-> 0]

(* impl WriteInteger for u8 .. i64 (write_integer.rs).                    *)

u8_write_integer(self, TEndian, w, partial) ==
    LET buf == Endian_u8_to_bytes(TEndian, self, ZeroBuf(1)).dest
    IN  write_all(w, buf, partial)

i8_write_integer(self, TEndian, w, partial) ==
    u8_write_integer(CastU(self, 1), TEndian, w, partial)

u16_write_integer(self, TEndian, w, partial) ==
    LET buf == Endian_u16_to_bytes(TEndian, self, ZeroBuf(2)).dest
    IN  write_all(w, buf, partial)

i16_write_integer(self, TEndian, w, partial) ==
    u16_write_integer(CastU(self, 2), TEndian, w, partial)

\* u32::write_integer encoding in little-endian order whatever TEndian
\* is: C14 tells it from u32_write_integer
u32_write_integer_little(self, TEndian, w, partial) ==
    LET buf == LittleEndian_u32_to_bytes(self, ZeroBuf(4)).dest
    IN  write_all(w, buf, partial)

u32_write_integer(self, TEndian, w, partial) ==
    LET buf == Endian_u32_to_bytes(TEndian, self, ZeroBuf(4)).dest
    IN  write_all(w, buf, partial)

i32_write_integer(self, TEndian, w, partial) ==
    u32_write_integer(CastU(self, 4), TEndian, w, partial)

u64_write_integer(self, TEndian, w, partial) ==
    LET buf == Endian_u64_to_bytes(TEndian, self, ZeroBuf(8)).dest
    IN  write_all(w, buf, partial)

i64_write_integer(self, TEndian, w, partial) ==
    u64_write_integer(CastU(self, 8), TEndian, w, partial)

\* value.write_integer::<TEndian>(self)
write_integer(TInt, TEndian, value, w, partial) ==
    CASE TInt = "u8"  -> u8_write_integer(value, TEndian, w, partial)
      [] TInt = "i8"  -> i8_write_integer(value, TEndian, w, partial)
      [] TInt = "u16" -> u16_write_integer(value, TEndian, w, partial)
      [] TInt = "i16" -> i16_write_integer(value, TEndian, w, partial)
      [] TInt = "u32" -> u32_write_integer(value, TEndian, w, partial)
      [] TInt = "i32" -> i32_write_integer(value, TEndian, w, partial)
      [] TInt = "u64" -> u64_write_integer(value, TEndian, w, partial)
      [] TInt = "i64" -> i64_write_integer(value, TEndian, w, partial)

RECURSIVE write_integer_array_unchecked(_, _, _, _, _)
\* write_integer_array dropping the result of each write_integer, without
\* the ?: C10 tells it from write_integer_array
write_integer_array_unchecked(TInt, TEndian, values, w, partial) ==
    IF values = <<>>
    THEN [ok |-> TRUE, writer |-> w]
    ELSE Let1(LAMBDA x :
                write_integer_array_unchecked(TInt, TEndian, Tail(values), x.writer, partial),
              write_integer(TInt, TEndian, Head(values), w, partial))

RECURSIVE write_integer_array(_, _, _, _, _)
\* BinaryWrite::write_integer_array: for x in values { x.write_integer(self)?; }
write_integer_array(TInt, TEndian, values, w, partial) ==
    IF values = <<>>
    THEN [ok |-> TRUE, writer |-> w]
    ELSE Let1(LAMBDA x :
                IF x.ok
                THEN write_integer_array(TInt, TEndian, Tail(values), x.writer, partial)
                ELSE x,
              write_integer(TInt, TEndian, Head(values), w, partial))

--------------------------------------------------------------------------
(* The inputs the calls are made with.                                    *)

\* the bytes every pattern of a width is built from
EdgeBytes == {0, 255}

\* 0x12, 0x34, 0x56, 0x78, 0x9A, 0xBC, 0xDE, 0x00, 0x22, ...: distinct
\* neighbours, so that a misplaced byte shows
PatternA(i) == (18 + 34 * i) % 256

\* 0xFF, 0xFE, 0xFD, ...: bytes with the top bit set
PatternB(i) == (255 - i) % 256

\* 0xA0, 0xA1, ...: what a caller's destination holds before an encode
DestFill(i) == (160 + i) % 256

\* -2, 1, the signed minimum, the signed maximum, 0x1234.. of width W
SpecialBits(W) ==
    { LimbsOf(-2, W), LimbsOf(1, W),
      [k \in 1..W |-> IF k = W THEN 128 ELSE 0],
      [k \in 1..W |-> IF k = W THEN 127 ELSE 255],
      [k \in 1..W |-> PatternA(W - k)] }

\* bit patterns of width W: every mix of 0x00 and 0xFF bytes (0 and -1
\* among them) and the special ones
ValueBits(W) == [1..W -> EdgeBytes] \cup SpecialBits(W)

\* the values of kind TInt the calls are made with
Values(TInt) == { Val(IsSigned(TInt), b) : b \in ValueBits(Width(TInt)) }

\* the values the stream writes are made with
StreamValues(TInt) == { Val(IsSigned(TInt), b) : b \in SpecialBits(Width(TInt)) }

\* the elements of the arrays written: -2, the signed minimum, 0x1234..
ArrayValues(TInt) ==
    { Val(IsSigned(TInt), b) :
        b \in { LimbsOf(-2, Width(TInt)),
                [k \in 1..Width(TInt) |-> IF k = Width(TInt) THEN 128 ELSE 0],
                [k \in 1..Width(TInt) |-> PatternA(Width(TInt) - k)] } }

\* every sequence over S of length at most n
SeqsUpTo(S, n) == UNION { [1..m -> S] : m \in 0..n }

\* the slices a decode of a W-byte kind is called with: shorter than W,
\* exactly W and longer
Buffers(W) ==
    SeqsUpTo(EdgeBytes, W + MaxExtra)
      \cup { [k \in 1..n |-> PatternA(k - 1)] : n \in 0..(W + MaxExtra) }
      \cup { [k \in 1..n |-> PatternB(k - 1)] : n \in 0..(W + MaxExtra) }

\* the destinations an encode of a W-byte kind is called with
Dests(W) ==
    { [k \in 1..n |-> 0] : n \in 0..(W + MaxExtra) }
      \cup { [k \in 1..n |-> DestFill(k - 1)] : n \in 0..(W + MaxExtra) }

\* the longest stream read: an array of MaxCount u64 and MaxExtra bytes more
MaxStream == MaxCount * 8 + MaxExtra

\* the streams read from
StreamData ==
    { [k \in 1..n |-> PatternA(k - 1)] : n \in 0..MaxStream }
      \cup { [k \in 1..n |-> PatternB(k - 1)] : n \in 0..MaxStream }

\* the sinks a write of n bytes is made to: what they received before the
\* call is nothing or one byte; growing, or of a capacity up to n and
\* MaxExtra more
Writers(n) ==
    { [received |-> p, cap |-> 0, grows |-> TRUE] : p \in {<<>>, <<238>>} }
      \cup { [received |-> <<>>, cap |-> c, grows |-> FALSE] : c \in 0..(n + MaxExtra) }
      \cup { [received |-> <<238>>, cap |-> c, grows |-> FALSE] : c \in 1..(n + MaxExtra) }

--------------------------------------------------------------------------
(* The calls.  The library keeps no state of its own.  A call of a        *)
(* byte-order function or of a stream write is made with its own buffer   *)
(* or sink: call holds its inputs and ret, once it has returned, what it  *)
(* returned and left in the buffer or the sink.  The stream read from is  *)
(* the one state that lasts from call to call; log is its history, the    *)
(* bytes the reads made of it so far asked for.                           *)

\* no call was made yet
NoCall == [op |-> "none"]

\* the call has not returned yet
Pending == [pending |-> TRUE]

\* no stream is read from
NoReader == [data |-> <<>>, pos |-> 0]

\* TEndian::K_from_bytes(&bytes)
EndianFromBytesCalls ==
    UNION { { [op |-> "Endian_from_bytes", TEndian |-> e, TInt |-> k, bytes |-> b] :
                e \in Endians, b \in Buffers(Width(k)) } : k \in Kinds }

\* K::from_bytes::<TEndian>(&bytes)
FromBytesCalls ==
    UNION { { [op |-> "from_bytes", TEndian |-> e, TInt |-> k, bytes |-> b] :
                e \in Endians, b \in Buffers(Width(k)) } : k \in Kinds }

\* TEndian::K_to_bytes(value, &mut destination)
EndianToBytesCalls ==
    UNION { { [op |-> "Endian_to_bytes", TEndian |-> e, TInt |-> k, value |-> v,
               destination |-> d] :
                e \in Endians, v \in Values(k), d \in Dests(Width(k)) } : k \in Kinds }

\* writer.write_integer::<TEndian, TInt>(value) on a sink in state w
WriteIntegerCalls ==
    UNION { { [op |-> "write_integer", TEndian |-> e, TInt |-> k, value |-> v,
               writer |-> w] :
                e \in Endians, v \in StreamValues(k), w \in Writers(Width(k)) } : k \in Kinds }

\* writer.write_integer_array::<TEndian, TInt>(&values) on a sink in state w
WriteIntegerArrayCalls ==
    UNION { { [op |-> "write_integer_array", TEndian |-> e, TInt |-> k, values |-> vs,
               writer |-> w] :
                e \in Endians, vs \in SeqsUpTo(ArrayValues(k), MaxCount),
                w \in Writers(MaxCount * Width(k)) } : k \in Kinds }

EndianFromBytes ==
    /\ call.op = "Endian_from_bytes" /\ ret = Pending
    /\ ret' = Endian_from_bytes(call.TEndian, call.TInt, call.bytes)
    /\ UNCHANGED <<call, reader, log>>

FromBytes ==
    /\ call.op = "from_bytes" /\ ret = Pending
    /\ ret' = from_bytes(call.TInt, call.TEndian, call.bytes)
    /\ UNCHANGED <<call, reader, log>>

EndianToBytes ==
    /\ call.op = "Endian_to_bytes" /\ ret = Pending
    /\ ret' = Endian_to_bytes(call.TEndian, call.TInt, call.value, call.destination)
    /\ UNCHANGED <<call, reader, log>>

\* what a sink may accept of a W-byte write it fails, when n bytes are
\* written to it in all: any part of the W bytes that it has room for; a
\* sink with room for the n bytes fails no write
Partials(w, n, W) == IF w.grows \/ Room(w) >= n THEN {0} ELSE 0..(W - 1)

WriteInteger ==
    /\ call.op = "write_integer" /\ ret = Pending
    /\ \E partial \in Partials(call.writer, Width(call.TInt), Width(call.TInt)) :
         ret' = write_integer(call.TInt, call.TEndian, call.value, call.writer, partial)
    /\ UNCHANGED <<call, reader, log>>

WriteIntegerArray ==
    /\ call.op = "write_integer_array" /\ ret = Pending
    /\ \E partial \in Partials(call.writer, Len(call.values) * Width(call.TInt),
                               Width(call.TInt)) :
         ret' = write_integer_array(call.TInt, call.TEndian, call.values, call.writer,
                                    partial)
    /\ UNCHANGED <<call, reader, log>>

\* what a failing read may consume before it fails: anything left; a read
\* of n bytes that succeeds consumes n
Advances(r, n) == IF Remaining(r) >= n THEN {0} ELSE 0..Remaining(r)

\* the history of a stream: how many bytes the reads made of it asked for
\* in all, as long as they all returned Ok, and whether one returned Err
NoLog == [bytes |-> 0, failed |-> FALSE]

\* the history after a read that asked for n bytes returned Ok or Err
Logged(l, ok, n) ==
    IF l.failed \/ ~ok THEN [bytes |-> 0, failed |-> TRUE]
    ELSE [l EXCEPT !.bytes = @ + n]

\* reader.read_integer::<TEndian, TInt>()
ReadInteger(TEndian, TInt, adv) ==
    LET x == read_integer(TInt, TEndian, reader, adv)
    IN  /\ call = NoCall
        /\ log' = Logged(log, x.ok, Width(TInt))
        /\ call' = [op |-> "read_integer", TEndian |-> TEndian, TInt |-> TInt,
                    reader |-> reader]
        /\ ret' = x
        /\ reader' = x.reader

\* reader.read_byte_array(byte_count)
ReadByteArray(byte_count, adv) ==
    LET x == read_byte_array(reader, byte_count, adv)
    IN  /\ call = NoCall
        /\ log' = Logged(log, x.ok, byte_count)
        /\ call' = [op |-> "read_byte_array", byte_count |-> byte_count,
                    reader |-> reader]
        /\ ret' = x
        /\ reader' = x.reader

\* reader.read_integer_array::<TEndian, TInt>(element_count)
ReadIntegerArray(TEndian, TInt, element_count, adv) ==
    LET x == read_integer_array(TInt, TEndian, reader, element_count, adv)
    IN  /\ call = NoCall
        /\ log' = Logged(log, x.ok, element_count * Width(TInt))
        /\ call' = [op |-> "read_integer_array", TEndian |-> TEndian, TInt |-> TInt,
                    element_count |-> element_count, reader |-> reader]
        /\ ret' = x
        /\ reader' = x.reader

\* the caller takes the result of the read; the stream stays where the
\* read left it
TakeResult ==
    /\ call # NoCall
    /\ call' = NoCall
    /\ ret' = Pending
    /\ UNCHANGED <<reader, log>>

--------------------------------------------------------------------------
(* Spec: the byte-order functions and the stream writes, one call each.   *)

Init ==
    /\ reader = NoReader
    /\ log = NoLog
    /\ call \in EndianFromBytesCalls \cup FromBytesCalls \cup EndianToBytesCalls
                  \cup WriteIntegerCalls \cup WriteIntegerArrayCalls
    /\ ret = Pending

Next ==
    \/ EndianFromBytes
    \/ FromBytes
    \/ EndianToBytes
    \/ WriteInteger
    \/ WriteIntegerArray

Spec == Init /\ [][Next]_vars

--------------------------------------------------------------------------
(* ReadSpec: the reads of one stream, call after call.                    *)

ReadInit ==
    /\ reader \in { [data |-> d, pos |-> 0] : d \in StreamData }
    /\ call = NoCall
    /\ ret = Pending
    /\ log = NoLog

ReadNext ==
    \/ \E TEndian \in Endians, TInt \in Kinds :
         \E adv \in Advances(reader, Width(TInt)) : ReadInteger(TEndian, TInt, adv)
    \/ \E byte_count \in 0..(MaxCount + 1) :
         \E adv \in Advances(reader, byte_count) : ReadByteArray(byte_count, adv)
    \/ \E TEndian \in Endians, TInt \in Kinds, element_count \in 0..MaxCount :
         \E adv \in Advances(reader, element_count * Width(TInt)) :
           ReadIntegerArray(TEndian, TInt, element_count, adv)
    \/ TakeResult

ReadSpec == ReadInit /\ [][ReadNext]_vars

--------------------------------------------------------------------------
(* What the claims are stated with.                                       *)

\* the call of the state has returned
Returned == ret # Pending

\* the bit pattern the byte layout assigns to the first W bytes of a
\* slice: byte p is bits [8(W-1-p), 8(W-p)) in big-endian order and bits
\* [8p, 8(p+1)) in little-endian order
Layout(TEndian, W, bytes) ==
    [k \in 1..W |-> IF TEndian = "BigEndian" THEN bytes[W - k + 1] ELSE bytes[k]] \o <<>>

\* the value of kind TInt the byte layout assigns to the first bytes of a
\* slice
Decoded(TEndian, TInt, bytes) ==
    Val(IsSigned(TInt), Layout(TEndian, Width(TInt), bytes))

\* the bytes TEndian::K_to_bytes leaves in a buffer of exactly the width
Encoding(TEndian, TInt, value) ==
    Endian_to_bytes(TEndian, TInt, value, ZeroBuf(Width(TInt))).dest

RECURSIVE Encodings(_, _, _)
\* the encodings of the values of a sequence, one after the other
Encodings(TEndian, TInt, values) ==
    IF values = <<>> THEN <<>>
    ELSE Encoding(TEndian, TInt, Head(values)) \o Encodings(TEndian, TInt, Tail(values))

\* s with its bytes in the opposite order
Reversed(s) == [k \in 1..Len(s) |-> s[Len(s) - k + 1]] \o <<>>

--------------------------------------------------------------------------
(* C1: for every kind, both byte orders and every value v, encoding v     *)
(* into a buffer of exactly the width of the kind and decoding that       *)
(* buffer in the same byte order gives v back.                            *)
C1_RoundTrip ==
    (call.op = "Endian_to_bytes" /\ Returned
       /\ Len(call.destination) = Width(call.TInt))
    => /\ ~ret.panic
       /\ Endian_from_bytes(call.TEndian, call.TInt, ret.dest) = call.value

(* C2: for each byte order and each width, the signed decode of a buffer  *)
(* of at least the width is the same-width reinterpretation of the        *)
(* unsigned decode of that buffer in the same byte order.                 *)
C2_SignedDecodeIsUnsignedDecode ==
    (call.op = "Endian_from_bytes" /\ Returned /\ IsSigned(call.TInt)
       /\ Len(call.bytes) >= Width(call.TInt))
    => ret = CastI(Endian_from_bytes(call.TEndian, UnsignedOf(call.TInt), call.bytes),
                   Width(call.TInt))

(* C3: an unsigned decode of a buffer of at least W bytes returns the     *)
(* value whose bits [8(W-1-p), 8(W-p)) (big-endian) or [8p, 8(p+1))       *)
(* (little-endian) are byte p of the buffer, 0 <= p < W: the bytes from   *)
(* index W on play no part.                                               *)
C3_UnsignedDecodeLayout ==
    (call.op = "Endian_from_bytes" /\ Returned /\ ~IsSigned(call.TInt)
       /\ Len(call.bytes) >= Width(call.TInt))
    => /\ ~ret.panic
       /\ ~ret.signed
       /\ Len(ret.bits) = Width(call.TInt)
       /\ \A p \in 0..(Width(call.TInt) - 1) :
            ret.bits[(IF call.TEndian = "BigEndian" THEN Width(call.TInt) - 1 - p ELSE p) + 1]
              = call.bytes[p + 1]

\* a big-endian u32 decode of 0x12 0x34 0x56 0x78 and a byte more gave
\* 0x12345678
C3_Witness ==
    /\ call.op = "Endian_from_bytes" /\ Returned
    /\ call.TEndian = "BigEndian" /\ call.TInt = "u32"
    /\ call.bytes = <<18, 52, 86, 120, 154>>
    /\ ret = Val(FALSE, <<120, 86, 52, 18>>)

(* C4: for every multi-byte kind and every value, the bytes the           *)
(* big-endian encode writes are the bytes the little-endian encode        *)
(* writes, in the opposite order.                                         *)
C4_BigEndianIsReversedLittleEndian ==
    (call.op = "Endian_to_bytes" /\ Returned /\ call.TEndian = "BigEndian"
       /\ Width(call.TInt) > 1 /\ Len(call.destination) >= Width(call.TInt))
    => /\ ~ret.panic
       /\ SubSeq(ret.dest, 1, Width(call.TInt))
            = Reversed(Encoding("LittleEndian", call.TInt, call.value))

\* a big-endian i32 encode of 0x12345678 wrote 0x12 0x34 0x56 0x78
C4_Witness ==
    /\ call.op = "Endian_to_bytes" /\ Returned
    /\ call.TEndian = "BigEndian" /\ call.TInt = "i32"
    /\ call.value = Val(TRUE, <<120, 86, 52, 18>>)
    /\ Len(call.destination) = 4
    /\ ret.dest = <<18, 52, 86, 120>>

(* C5: encoding a signed value writes the bytes that encoding the         *)
(* unsigned value of the same bit pattern writes, for each width and byte *)
(* order: in the *_to_bytes functions and in write_integer on a stream.   *)
C5_SignedEncodeIsUnsignedEncode ==
    /\ (call.op = "Endian_to_bytes" /\ Returned /\ IsSigned(call.TInt))
       => ret = Endian_to_bytes(call.TEndian, UnsignedOf(call.TInt),
                                CastU(call.value, Width(call.TInt)), call.destination)
    /\ (call.op = "write_integer" /\ Returned /\ IsSigned(call.TInt) /\ ret.ok)
       => ret.writer.received
            = call.writer.received
                \o Encoding(call.TEndian, UnsignedOf(call.TInt),
                            CastU(call.value, Width(call.TInt)))

\* write_integer of the i8 -2 in big-endian order sent the byte 0xFE,
\* which is 254_u8
C5_Witness ==
    /\ call.op = "write_integer" /\ Returned
    /\ call.TEndian = "BigEndian" /\ call.TInt = "i8"
    /\ call.value = Val(TRUE, <<254>>)
    /\ call.writer.received = <<>>
    /\ ret.ok
    /\ ret.writer.received = <<254>>

(* C6: an encode into a destination of at least W bytes changes only its  *)
(* positions 0..W-1: the bytes from index W on are as they were, and so   *)
(* is the length.                                                         *)
C6_EncodeFrame ==
    (call.op = "Endian_to_bytes" /\ Returned
       /\ Len(call.destination) >= Width(call.TInt))
    => /\ ~ret.panic
       /\ Len(ret.dest) = Len(call.destination)
       /\ \A i \in (Width(call.TInt) + 1)..Len(call.destination) :
            ret.dest[i] = call.destination[i]

\* a little-endian u16 encode of 0x1234 into 0xA0 0xA1 0xA2 left 0xA2
C6_Witness ==
    /\ call.op = "Endian_to_bytes" /\ Returned
    /\ call.TEndian = "LittleEndian" /\ call.TInt = "u16"
    /\ call.value = Val(FALSE, <<52, 18>>)
    /\ call.destination = <<160, 161, 162>>
    /\ ret.dest = <<52, 18, 162>>

(* C7: a decode of a buffer shorter than the width of the kind panics and *)
(* returns no value, for all 8 kinds and both byte orders alike.          *)
C7_ShortDecodePanics ==
    (call.op = "Endian_from_bytes" /\ Returned
       /\ Len(call.bytes) < Width(call.TInt))
    => ret = Panic

\* BigEndian::u32_from_bytes(&vec![0x12]) panicked
C7_Witness ==
    /\ call.op = "Endian_from_bytes" /\ Returned
    /\ call.TEndian = "BigEndian" /\ call.TInt = "u32"
    /\ call.bytes = <<18>>
    /\ ret = Panic

(* C8: read_integer_array of n elements of a W-byte kind from a stream    *)
(* with at least n*W bytes left returns Ok with exactly n elements,       *)
(* element i the value the byte order assigns to the stream bytes         *)
(* [start + i*W, start + (i+1)*W), and leaves the position n*W further,   *)
(* the bytes after that unread.                                           *)
C8_ReadIntegerArray ==
    (call.op = "read_integer_array"
       /\ Remaining(call.reader) >= call.element_count * Width(call.TInt))
    => /\ ret.ok
       /\ Len(ret.value) = call.element_count
       /\ \A i \in 0..(call.element_count - 1) :
            ret.value[i + 1]
              = Decoded(call.TEndian, call.TInt,
                        SubSeq(call.reader.data,
                               call.reader.pos + i * Width(call.TInt) + 1,
                               call.reader.pos + (i + 1) * Width(call.TInt)))
       /\ reader.pos = call.reader.pos + call.element_count * Width(call.TInt)
       /\ reader.data = call.reader.data

\* two little-endian i16 read from 0x34 0x56 0x78 0x9A .., one byte into
\* the stream, are 0x5634 and 0x9A78 (negative), with bytes left unread
C8_Witness ==
    /\ call.op = "read_integer_array"
    /\ call.TEndian = "LittleEndian" /\ call.TInt = "i16"
    /\ call.element_count = 2
    /\ call.reader.pos = 1
    /\ Len(call.reader.data) > 5
    /\ SubSeq(call.reader.data, 1, 5) = <<18, 52, 86, 120, 154>>
    /\ ret.ok
    /\ ret.value = <<Val(TRUE, <<52, 86>>), Val(TRUE, <<120, 154>>)>>
    /\ reader.pos = 5
    /\ Remaining(reader) > 0

(* C9: a read from a stream with fewer bytes left than it needs (the      *)
(* width for read_integer, n times the width for read_integer_array,      *)
(* count for read_byte_array) returns Err: never Ok with a value.         *)
C9_ShortStreamFails ==
    /\ (call.op = "read_integer" /\ Remaining(call.reader) < Width(call.TInt))
       => ~ret.ok
    /\ (call.op = "read_integer_array"
          /\ Remaining(call.reader) < call.element_count * Width(call.TInt))
       => ~ret.ok
    /\ (call.op = "read_byte_array" /\ Remaining(call.reader) < call.byte_count)
       => ~ret.ok

\* a read of two u32 with 7 bytes left failed
C9_Witness ==
    /\ call.op = "read_integer_array"
    /\ call.TInt = "u32" /\ call.element_count = 2
    /\ Remaining(call.reader) = 7
    /\ ~ret.ok

(* C10: write_integer_array writes the elements in their order.  When it  *)
(* returns Ok the stream has received len(values)*W bytes, the encodings  *)
(* of the elements one after the other.  When the write of element k is   *)
(* the first to fail it returns Err, the stream has received the whole    *)
(* encodings of the elements before k, in order, then at most a part of   *)
(* element k, and no byte of an element after k.                          *)
C10_WriteIntegerArray ==
    (call.op = "write_integer_array" /\ Returned)
    => LET W == Width(call.TInt)
           n == Len(call.values)
           before == call.writer.received
           got == ret.writer.received
           \* the writes of elements 1..k all fit the sink
           fit(k) == call.writer.grows \/ k * W <= Room(call.writer)
       IN  /\ ret.ok <=> fit(n)
           /\ ret.ok =>
                /\ got = before \o Encodings(call.TEndian, call.TInt, call.values)
                /\ Len(got) = Len(before) + n * W
           /\ ~ret.ok =>
                \E k \in 1..n :
                  /\ fit(k - 1) /\ ~fit(k)
                  /\ \E j \in 0..(W - 1) :
                       got = before
                               \o Encodings(call.TEndian, call.TInt,
                                            SubSeq(call.values, 1, k - 1))
                               \o SubSeq(Encoding(call.TEndian, call.TInt, call.values[k]),
                                         1, j)

\* an array of two big-endian i16, -2 and 0x1234, written to a sink with
\* room for 3 bytes: Err, with 0xFF 0xFE and the first byte of 0x1234 sent
C10_Witness ==
    /\ call.op = "write_integer_array" /\ Returned
    /\ call.TEndian = "BigEndian" /\ call.TInt = "i16"
    /\ call.values = <<Val(TRUE, <<254, 255>>), Val(TRUE, <<52, 18>>)>>
    /\ call.writer = [received |-> <<>>, cap |-> 3, grows |-> FALSE]
    /\ ~ret.ok
    /\ ret.writer.received = <<255, 254, 18>>

(* C11: for every kind, both byte orders and every stream with at least   *)
(* the width of the kind left, read_integer returns Ok(x) with x the      *)
(* value FromBytes::from_bytes of the same kind and byte order gives for  *)
(* the bytes read.                                                        *)
C11_ReadAgreesWithFromBytes ==
    (call.op = "read_integer" /\ Remaining(call.reader) >= Width(call.TInt))
    => /\ ret.ok
       /\ ret.value
            = from_bytes(call.TInt, call.TEndian,
                         SubSeq(call.reader.data, call.reader.pos + 1,
                                call.reader.pos + Width(call.TInt)))

(* C12: as long as every read of a stream returned Ok (read_integer of    *)
(* any kinds and byte orders, read_byte_array), the position of the       *)
(* stream is where it started, 0, plus the bytes the reads asked for in   *)
(* all: the width for an integer, count for a byte array.  What a read    *)
(* returns is made of the bytes from the position before it up to the     *)
(* position after it: an integer is the value the byte order assigns to   *)
(* them, a byte array is those bytes in their order.                      *)
C12_ReadsAdvanceByWhatTheyTake ==
    ~log.failed
    => /\ reader.pos = 0 + log.bytes
       /\ call.op = "read_integer"
          => /\ ret.ok
             /\ reader.pos = call.reader.pos + Width(call.TInt)
             /\ ret.value
                  = Decoded(call.TEndian, call.TInt,
                            SubSeq(call.reader.data, call.reader.pos + 1, reader.pos))
       /\ call.op = "read_byte_array"
          => /\ ret.ok
             /\ reader.pos = call.reader.pos + call.byte_count
             /\ ret.value = SubSeq(call.reader.data, call.reader.pos + 1, reader.pos)

\* after reads that took 5 bytes of 0x12 0x34 0x56 0x78 0x9A 0xBC 0xDE ..
\* (no one read takes 5), read_byte_array(2) returned 0xBC 0xDE and left
\* the stream at 7
C12_Witness ==
    /\ ~log.failed
    /\ log.bytes = 7
    /\ call.op = "read_byte_array"
    /\ call.byte_count = 2
    /\ call.reader.pos = 5
    /\ ret.ok
    /\ ret.value = <<188, 222>>
    /\ reader.pos = 7

(* C13: a read_integer_array of n elements from a stream that ends inside *)
(* element k (k whole elements are left, k < n) returns the Err of the    *)
(* read of element k at once: it returns none of the k elements decoded,  *)
(* reads nothing after the failed read, and leaves the stream where that  *)
(* read left it, at least k widths past the position it started at.       *)
C13_ReadIntegerArrayFailure ==
    (call.op = "read_integer_array"
       /\ Remaining(call.reader) < call.element_count * Width(call.TInt))
    => LET W == Width(call.TInt)
           k == Remaining(call.reader) \div W
       IN  /\ ~ret.ok
           /\ DOMAIN ret = {"ok", "reader"}
           /\ ret.reader = reader
           /\ reader.data = call.reader.data
           /\ reader.pos >= call.reader.pos + k * W
           /\ reader.pos <= call.reader.pos + k * W + (W - 1)

\* two big-endian u32 asked of a stream with 7 bytes left, 2 bytes in:
\* Err, with the stream 4 bytes and 3 more further (element 0 and what
\* the failed read took of element 1)
C13_Witness ==
    /\ call.op = "read_integer_array"
    /\ call.TEndian = "BigEndian" /\ call.TInt = "u32"
    /\ call.element_count = 2
    /\ call.reader.pos = 2
    /\ Remaining(call.reader) = 7
    /\ ~ret.ok
    /\ reader.pos = 9

(* C14: for every kind, both byte orders and every sequence vs of values  *)
(* of the kind, write_integer_array of vs to an empty sink that never     *)
(* fails returns Ok, and read_integer_array of Len(vs) elements of the    *)
(* same kind and byte order from the bytes the sink received returns      *)
(* Ok(vs), with all the bytes read: for the signed kinds in little-endian *)
(* order too.                                                             *)
C14_StreamRoundTrip ==
    (call.op = "write_integer_array" /\ Returned
       /\ call.writer.grows /\ call.writer.received = <<>>)
    => /\ ret.ok
       /\ read_integer_array(call.TInt, call.TEndian,
                             [data |-> ret.writer.received, pos |-> 0],
                             Len(call.values), 0)
            = [ok |-> TRUE,
               reader |-> [data |-> ret.writer.received,
                           pos |-> Len(ret.writer.received)],
               value |-> call.values]

\* the little-endian i16 -2 and 0x1234 were written to an empty growing
\* sink as 0xFE 0xFF 0x34 0x12
C14_Witness ==
    /\ call.op = "write_integer_array" /\ Returned
    /\ call.TEndian = "LittleEndian" /\ call.TInt = "i16"
    /\ call.values = <<Val(TRUE, <<254, 255>>), Val(TRUE, <<52, 18>>)>>
    /\ call.writer = [received |-> <<>>, cap |-> 0, grows |-> TRUE]
    /\ ret.ok
    /\ ret.writer.received = <<254, 255, 52, 18>>

(* C15: for every kind, both byte orders and every destination shorter    *)
(* than the width of the kind, the encode panics with the destination as  *)
(* it was before the call: no byte of it is changed, in big-endian as in  *)
(* little-endian order.                                                   *)
C15_FaultingEncodeLeavesDestination ==
    (call.op = "Endian_to_bytes" /\ Returned
       /\ Len(call.destination) < Width(call.TInt))
    => /\ ret.panic
       /\ ret.dest = call.destination

==========================================================================
